---- MODULE Spec2Model ----
(***************************************************************************)
(* The authenticated API client of the todo application:                   *)
(*   frontend/src/services/auth.js  - token cache, getAuthToken,           *)
(*                                    refreshAuthToken, logout, the        *)
(*                                    onIdTokenChanged handler             *)
(*   frontend/src/services/api.js   - request interceptor (token attach),  *)
(*                                    response interceptor (401 handling), *)
(*                                    handleApiRequest (retry loop, error  *)
(*                                    formatting)                          *)
(*   frontend/src/App.js            - the mount of App: loadData and the   *)
(*                                    effects that save to localStorage    *)
(*                                                                         *)
(* JavaScript runs single-threaded: every action below is one synchronous  *)
(* section of the code between two suspension points (an await on the      *)
(* identity provider, on the HTTP transport, or on a timer).               *)
(*                                                                         *)
(* Time is counted in abstract units.  TOKEN_REFRESH_THRESHOLD (5 minutes  *)
(* in the code) is one unit; the hour a token lives (and that the code     *)
(* assumes when it cannot decode a token) is scaled down to HOUR units.    *)
(* The lifetime of a token counts from the instant its fetch settles.      *)
(***************************************************************************)
EXTENDS Naturals, Integers, Sequences, FiniteSets, TLC

\* ------------------------------------------------------------------ bounds
NumCalls == 2       \* logical API calls that can run concurrently
MaxTime == 4        \* the clock stops here
MaxTokens == 3      \* tokens the identity provider issues
HOUR == 3           \* one hour, in time units (more than the threshold)
MaxSaved == 2       \* tasks the previous session left in localStorage
NumListeners == 2   \* distinct callbacks subscribed to the auth state
MaxSubs == 3        \* calls of onAuthStateChange

\* ------------------------------------------------------- program constants
MAX_RETRIES == 2
RETRY_DELAY == 800  \* ms
TOKEN_REFRESH_THRESHOLD == 1

Calls == 1..NumCalls
OneCall == {1}

\* Those who await the identity provider: the API calls (through the request
\* interceptor), a direct getAuthToken caller, refreshAuthToken, and the
\* onIdTokenChanged handler.
Direct == 0
Refresher == -1
Handler == -2
Fetchers == Calls \cup {Direct, Refresher, Handler}

\* Outcome of a dispatch: an HTTP status, or no response at all.
NETWORK == 0        \* error.request without error.response
TIMEOUT == -1       \* the 15000 ms timeout of the axios instance
NoResult == -2      \* the caller has observed nothing yet
SETUP == -3         \* neither error.response nor error.request, with a message
BARE == -4          \* a rejection that carries no message
Outcomes == {200, 400, 401, 404, 499, 500, 599, NETWORK, TIMEOUT}
AuthOutcomes == {200, 401}
FreshOutcomes == {200, 500}
ConcOutcomes == {200, 401}
CancelOutcomes == {401, TIMEOUT}
ErrOutcomes == {200, 401, 404, 500, 503, NETWORK, TIMEOUT, SETUP, BARE}

\* error.response.data.detail: absent, or the text the server supplied.
NoDetail == ""
Details == {NoDetail, "quota exceeded"}

NoUser == "none"
User == "u1"
Users == {"u1", "u2"}

\* A token: its value, its expiry and the user it was issued to.
NoToken == [id |-> 0, exp |-> 0, user |-> NoUser]

\* A getIdToken promise: pending or not, the time it was started, and the
\* user object it was called on.
NoFetch == [st |-> "none", t0 |-> 0, u |-> NoUser]
StartedFetch(t0, u) == [st |-> "req", t0 |-> t0, u |-> u]

VARIABLES
    now,                \* Date.now()
    currentUser,        \* auth.currentUser
    idpToken,           \* the token the identity provider holds for each user
    issued,             \* number of tokens the identity provider has issued
    cachedToken,        \* auth.js: let cachedToken
    tokenExpiry,        \* auth.js: let tokenExpiry
    fetch,              \* pending getIdToken promise of each requester
    gPc,                \* position of the direct getAuthToken call
    gForce,             \* its forceRefresh argument
    gRet,               \* the value it returned
    logoutPc,           \* position of logout()
    isRefreshingToken,  \* api.js: let isRefreshingToken
    tokenRefreshPromise,\* api.js: let tokenRefreshPromise
    timers,             \* pending one-second timers of refresh promises
    pc,                 \* position of each logical API call
    attempt,            \* handleApiRequest: loop variable attempt
    delay,              \* ms of the backoff sleep the call awaits (0: none)
    isRetry,            \* config.__isRetryRequest of the current config
    hdr,                \* config.headers.Authorization of the current config
    log,                \* outcomes of the dispatches each call has made so far
    result,             \* outcome the call of the public API function ended with
    intercepted,        \* response interceptor: the 401 `error` its closure holds
    caught,             \* the error object the caller of the API function catches
    tasks,              \* App.js: state tasks
    githubSettings,     \* App.js: state githubSettings
    loading,            \* App.js: state loading
    localStorage,       \* the browser's localStorage, per key
    saved,              \* localStorage as the previous session left it
    effects,            \* React effects of App waiting to run, in order
    loadPc,             \* position of loadData
    apiTasks,           \* what loadData got from fetchTodos
    authStateListeners, \* auth.js: let authStateListeners
    observers,          \* callbacks registered with the provider's onAuthStateChanged
    heard,              \* invocations of callbacks since the last session change
    authContext,        \* AuthProvider: the states currentUser, loading, error
    verifying,          \* AuthProvider: pending checkAuthStatus() of its callback
    ctxPc,              \* AuthProvider: position of its logout()
    ctxHandle,          \* AuthProvider: the handle its effect got (0: not mounted)
    editingTask,        \* App.js: state editingTask (0: null)
    showForm,           \* App.js: state showForm
    op                  \* the task operation awaiting each logical API call

authVars == <<currentUser, idpToken, issued, cachedToken, tokenExpiry, fetch,
              gPc, gForce, gRet, logoutPc>>
errVars == <<intercepted, caught>>
apiVars == <<isRefreshingToken, tokenRefreshPromise, timers, pc, attempt, delay, isRetry,
             hdr, log, result, errVars>>
appVars == <<tasks, githubSettings, loading, localStorage, saved, effects, loadPc,
             apiTasks>>
subVars == <<authStateListeners, observers, heard>>
ctxVars == <<authContext, verifying, ctxPc, ctxHandle>>
crudVars == <<editingTask, showForm, op>>
uiVars == <<subVars, ctxVars, crudVars>>
vars == <<now, currentUser, idpToken, issued, cachedToken, tokenExpiry, fetch,
          gPc, gForce, gRet, logoutPc, isRefreshingToken, tokenRefreshPromise,
          timers, pc, attempt, delay, isRetry, hdr, log, result, intercepted,
          caught, tasks, githubSettings, loading, localStorage, saved, effects,
          loadPc, apiTasks, authStateListeners, observers, heard, authContext,
          verifying, ctxPc, ctxHandle, editingTask, showForm, op>>

\* A task operation of App: its position ("none", "await": its handler
\* awaits the API call, "applied"), its kind, the task it creates, puts in
\* place or deletes, and the tasks of the render its handler belongs to.
NoOp == [st |-> "none", kind |-> "none", task |-> 0, snapshot |-> <<>>]

\* AuthProvider's currentUser: null, or the user data of the backend with
\* the provider's user; stale records that the verification it came from
\* had been started before the latest notification without a user.
NoCtxUser == [firebaseUser |-> NoUser, stale |-> FALSE]

\* ------------------------------------------------------------ error objects
\* A message: its fixed text and the values interpolated into it.
Msg(text, status, detail) == [text |-> text, status |-> status, detail |-> detail]

NoResponse == [status |-> 0, detail |-> NoDetail]
Undefined == [undefined |-> TRUE]

\* An error object: message, response (status and data.detail) and the
\* originalError property.
Err(message, response, originalError) ==
    [message |-> message, response |-> response, originalError |-> originalError]

\* ------------------------------------------------------------ App.js
\* localStorage holds strings: JSON.stringify makes one of a value and
\* JSON.parse gives the value back; getItem of a key never set is null.
Null == [null |-> TRUE]
Stringify(v) == [json |-> v]
Parse(text) == text.json

Keys == {"codingTasks", "githubSettings"}

\* useState initial values, lines 11-12 and 26-29.
NoTasks == <<>>
DefaultSettings == [token |-> "", defaultRepo |-> ""]

\* What a previous session can have left: nothing, or a saved task list
\* (tasks are named by their ids), and nothing or saved settings.
SavedTasks == {[i \in 1..n |-> i] : n \in 0..MaxSaved}
SavedSettings == {DefaultSettings, [token |-> "ghp_1", defaultRepo |-> "me/repo"]}
Sessions ==
    {[k \in Keys |-> IF k = "codingTasks" THEN t ELSE g] :
        t \in {Null} \cup {Stringify(x) : x \in SavedTasks},
        g \in {Null} \cup {Stringify(x) : x \in SavedSettings}}

\* What GET /todos can answer with.
ApiTasks == {NoTasks, <<MaxSaved + 1>>}

\* The App component: its state after useState, with the given effects
\* waiting and the given content of localStorage.
InitApp(store, fx) ==
    /\ tasks = NoTasks
    /\ githubSettings = DefaultSettings
    /\ loading = TRUE
    /\ localStorage = store
    /\ saved = store
    /\ effects = fx
    /\ loadPc = "idle"
    /\ apiTasks = NoTasks

InitClient ==
    /\ now = 0
    /\ currentUser = NoUser
    /\ idpToken = [u \in Users |-> NoToken]
    /\ issued = 0
    /\ cachedToken = NoToken
    /\ tokenExpiry = 0
    /\ fetch = [r \in Fetchers |-> NoFetch]
    /\ gPc = "idle"
    /\ gForce = FALSE
    /\ gRet = NoToken
    /\ logoutPc = "idle"
    /\ isRefreshingToken = FALSE
    /\ tokenRefreshPromise = "null"
    /\ timers = 0
    /\ pc = [c \in Calls |-> "idle"]
    /\ attempt = [c \in Calls |-> 0]
    /\ delay = [c \in Calls |-> 0]
    /\ isRetry = [c \in Calls |-> FALSE]
    /\ hdr = [c \in Calls |-> NoToken]
    /\ log = [c \in Calls |-> <<>>]
    /\ result = [c \in Calls |-> NoResult]
    /\ intercepted = [c \in Calls |-> Undefined]
    /\ caught = [c \in Calls |-> Undefined]
    /\ authStateListeners = <<>>
    /\ observers = <<>>
    /\ heard = <<>>
    /\ authContext = [currentUser |-> NoCtxUser, loading |-> TRUE, error |-> FALSE]
    /\ verifying = <<>>
    /\ ctxPc = "idle"
    /\ ctxHandle = 0
    /\ editingTask = 0
    /\ showForm = FALSE
    /\ op = [c \in Calls |-> NoOp]

\* The client alone: App is not mounted.
Init == InitClient /\ InitApp([k \in Keys |-> Null], <<>>)

\* App is rendered for the first time (its three effects wait to run, in
\* the order of their declaration) in a browser a previous session used.
InitMount ==
    /\ InitClient
    /\ \E store \in Sessions : InitApp(store, <<"load", "saveTasks", "saveSettings">>)

\* The clock advances at any suspension point.
Tick ==
    /\ now < MaxTime
    /\ now' = now + 1
    /\ UNCHANGED <<authVars, apiVars, appVars, uiVars>>

\* ------------------------------------------------ auth-state subscription
\* The callbacks the application subscribes; those of Throwing throw when
\* they are invoked.
Listeners == 1..NumListeners
Throwing == {1}

Range(q) == {q[i] : i \in 1..Len(q)}

\* One invocation of callback l: who made it ("handler": the forEach of the
\* onIdTokenChanged handler, "provider": the identity provider's
\* onAuthStateChanged), its user argument, and the token cached at that
\* moment.
Invocation(l, via, user, cached) ==
    [who |-> l, via |-> via, user |-> user, cached |-> cached, threw |-> l \in Throwing]

\* Variant: the array is pushed to whether or not it includes the callback.
Registered_Always(callback) == Append(authStateListeners, callback)

\* onAuthStateChange, lines 327-329: the callback is pushed unless the
\* array includes it.
Registered(callback) ==
    IF callback \in Range(authStateListeners) THEN authStateListeners
    ELSE Append(authStateListeners, callback)

\* Variant: the first listener that throws ends the iteration.
Invoked_UntilThrow(ls) ==
    IF \E i \in 1..Len(ls) : ls[i] \in Throwing
    THEN SubSeq(ls, 1, CHOOSE i \in 1..Len(ls) :
                          /\ ls[i] \in Throwing
                          /\ \A j \in 1..(i - 1) : ls[j] \notin Throwing)
    ELSE ls

\* Handler, lines 72-78: forEach with a try/catch around each listener.
Invoked(ls) == ls

\* Variant: the listeners run before the handler assigns the cache.
SeenByListeners_Stale == cachedToken

\* Handler, lines 54-78: the listeners run after the assignments of the
\* cache, so the cache they can observe is the new one.
SeenByListeners == cachedToken'

\* Handler, lines 71-78: the invocations it makes for the given user.
NotifyListeners(user) ==
    [i \in 1..Len(Invoked(authStateListeners)) |->
        Invocation(Invoked(authStateListeners)[i], "handler", user, SeenByListeners)]

\* The identity provider calls the callbacks registered with its
\* onAuthStateChanged and not unsubscribed, in the order of registration.
ActiveObservers == SelectSeq(observers, LAMBDA o : o.active)

ProviderNotifies(user) ==
    [i \in 1..Len(ActiveObservers) |->
        Invocation(ActiveObservers[i].cb, "provider", user, cachedToken')]

\* onAuthStateChange(callback), lines 322-336: the callback is added to
\* authStateListeners and registered with the provider's onAuthStateChanged,
\* whose unsubscribe function is what the caller gets. (The catch branch,
\* lines 337-349, is taken only when the provider's function throws.)
Subscribe(callback) ==
    /\ Len(observers) < MaxSubs
    /\ authStateListeners' = Registered(callback)
    /\ observers' = Append(observers, [cb |-> callback, active |-> TRUE])
    /\ UNCHANGED <<heard, ctxVars, appVars, crudVars, now, authVars, apiVars>>

\* The caller calls the handle its h-th subscription returned: the provider
\* drops that registration.
Unsubscribe(h) ==
    /\ h \in 1..Len(observers)
    /\ observers[h].active
    /\ observers' = [observers EXCEPT ![h].active = FALSE]
    /\ UNCHANGED <<authStateListeners, heard, ctxVars, appVars, crudVars, now, authVars, apiVars>>

\* ------------------------------------------------------- AuthContext.js
\* The callback AuthProvider's effect subscribes (it is an async function:
\* it does not throw into its caller).
AuthProviderCallback == 0

\* Number of invocations of AuthProvider's callback among invs.
Calls_AuthProvider(invs) ==
    Cardinality({i \in 1..Len(invs) : invs[i].who = AuthProviderCallback})

\* The callback, lines 22-43, up to its await, for the invocations among
\* invs, all made with the same user argument: with a user loading is set
\* and checkAuthStatus() is awaited; without one currentUser is set to null
\* and loading is reset.
AuthProviderHears(invs, user) ==
    IF Calls_AuthProvider(invs) = 0
    THEN UNCHANGED <<authContext, verifying>>
    ELSE IF user # NoUser
    THEN /\ authContext' = [authContext EXCEPT !.loading = TRUE]
         /\ verifying' = verifying \o
                [i \in 1..Calls_AuthProvider(invs) |-> [user |-> user, stale |-> FALSE]]
    ELSE /\ authContext' = [authContext EXCEPT !.currentUser = NoCtxUser,
                                              !.loading = FALSE]
         /\ verifying' = [i \in 1..Len(verifying) |->
                            [verifying[i] EXCEPT !.stale = TRUE]]

\* ------------------------------------------------------ identity provider
\* A token issued now to user u: a new value that expires one hour from now.
NewToken(u) == [id |-> issued + 1, exp |-> now + HOUR, user |-> u]

\* user.getIdToken() without forced refresh: the provider's current token
\* of that user while it is valid, a new one otherwise.
CurrentOrNew(u) ==
    IF idpToken[u] # NoToken /\ idpToken[u].exp > now THEN idpToken[u] ELSE NewToken(u)

\* The session is established (sign-in or restored session): the identity
\* provider sets auth.currentUser and fires onIdTokenChanged with the user;
\* the handler runs up to its await on user.getIdToken().
SignInAs(u) ==
    /\ currentUser = NoUser
    /\ logoutPc = "idle"
    /\ issued < MaxTokens
    /\ currentUser' = u
    /\ idpToken' = [idpToken EXCEPT ![u] = NewToken(u)]
    /\ issued' = issued + 1
    /\ fetch' = [fetch EXCEPT ![Handler] = StartedFetch(0, u)]
    /\ UNCHANGED <<appVars, crudVars, authStateListeners, observers, ctxPc, ctxHandle, now,
                   cachedToken, tokenExpiry, gPc, gForce, gRet, logoutPc, apiVars>>
    /\ heard' = ProviderNotifies(u)
    /\ AuthProviderHears(ProviderNotifies(u), u)

SignIn == SignInAs(User)

\* onIdTokenChanged handler, user branch, after the await: the token is
\* cached with the expiry decoded from it; a failure of getIdToken or of
\* the decoding clears the cached token and leaves tokenExpiry.
HandlerSettle(ok) ==
    /\ fetch[Handler].st = "req"
    /\ ok => (CurrentOrNew(fetch[Handler].u) = idpToken[fetch[Handler].u]
                \/ issued < MaxTokens)
    /\ fetch' = [fetch EXCEPT ![Handler] = NoFetch]
    /\ IF ok
       THEN /\ cachedToken' = CurrentOrNew(fetch[Handler].u)
            /\ tokenExpiry' = CurrentOrNew(fetch[Handler].u).exp
            /\ idpToken' = [idpToken EXCEPT ![fetch[Handler].u] =
                                CurrentOrNew(fetch[Handler].u)]
            /\ issued' = IF CurrentOrNew(fetch[Handler].u) = idpToken[fetch[Handler].u]
                         THEN issued ELSE issued + 1
       ELSE /\ cachedToken' = NoToken
            /\ UNCHANGED <<tokenExpiry, idpToken, issued>>
    /\ heard' = heard \o NotifyListeners(fetch[Handler].u)
    /\ AuthProviderHears(NotifyListeners(fetch[Handler].u), fetch[Handler].u)
    /\ UNCHANGED <<appVars, crudVars, authStateListeners, observers, ctxPc, ctxHandle, now,
                   currentUser, gPc, gForce, gRet, logoutPc, apiVars>>

\* ----------------------------------------------------------- auth.js
\* getAuthToken, line 284: no signed-in user.
GatNoUser == currentUser = NoUser

\* Variants of the line-294 test used to validate the properties below: one
\* without the expiry comparison, one that accepts a token expiring exactly
\* at now + threshold.
GatCached_NoExpiry(forceRefresh) ==
    /\ ~forceRefresh
    /\ cachedToken # NoToken

GatCached_Inclusive(forceRefresh) ==
    /\ ~forceRefresh
    /\ cachedToken # NoToken
    /\ tokenExpiry >= now + TOKEN_REFRESH_THRESHOLD

\* getAuthToken, line 294: the cached token is returned when refresh is not
\* forced, a token is cached and it expires later than now + threshold.
GatCached(forceRefresh) ==
    /\ ~forceRefresh
    /\ cachedToken # NoToken
    /\ tokenExpiry > now + TOKEN_REFRESH_THRESHOLD

\* getAuthToken returns without suspending (null or the cached token).
GatImmediate(forceRefresh) == GatNoUser \/ GatCached(forceRefresh)

\* Variant: the cached token is returned whether or not a user is signed in.
GatValue_IgnoresUser(forceRefresh) == cachedToken

\* The value getAuthToken returns when it does not suspend.
GatValue(forceRefresh) == IF GatNoUser THEN NoToken ELSE cachedToken

\* getAuthToken after `await auth.currentUser.getIdToken(true)` settled for
\* requester r: the value cached and returned, and the new tokenExpiry.
\*   ok      - the fetch resolved (else it rejected: cache cleared, null)
\*   decoded - the JWT payload could be decoded (else expiry = start + 1 hour)
GatSettledToken(r, ok) == IF ok THEN NewToken(fetch[r].u) ELSE NoToken

GatSettledExpiry(r, ok, decoded) ==
    IF ~ok THEN tokenExpiry
    ELSE IF decoded THEN NewToken(fetch[r].u).exp
    ELSE fetch[r].t0 + HOUR

\* The part of a settled getIdToken(true) that belongs to the identity
\* provider: a resolved fetch issues a token to the user it was called on,
\* which becomes the provider's current token of that user and, when that
\* user is the current user, fires onIdTokenChanged (the handler runs up to
\* its await).
IdpIssues(r, ok) ==
    /\ ok => issued < MaxTokens
    /\ issued' = IF ok THEN issued + 1 ELSE issued
    /\ idpToken' = IF ok THEN [idpToken EXCEPT ![fetch[r].u] = NewToken(fetch[r].u)]
                 ELSE idpToken
    /\ fetch' = [x \in Fetchers |->
                    IF x = r THEN NoFetch
                    ELSE IF x = Handler /\ ok /\ fetch[r].u = currentUser
                         THEN StartedFetch(0, currentUser)
                    ELSE fetch[x]]

\* A direct call getAuthToken(forceRefresh) of the exported function.
GetAuthTokenDirect(forceRefresh) ==
    /\ gPc = "idle"
    /\ gForce' = forceRefresh
    /\ IF GatImmediate(forceRefresh)
       THEN /\ gPc' = "returned"
            /\ gRet' = GatValue(forceRefresh)
            /\ cachedToken' = GatValue(forceRefresh)
            /\ UNCHANGED fetch
       ELSE /\ gPc' = "wait"
            /\ fetch' = [fetch EXCEPT ![Direct] = StartedFetch(now, currentUser)]
            /\ UNCHANGED <<gRet, cachedToken>>
    /\ UNCHANGED <<appVars, uiVars, now, currentUser, idpToken, issued, tokenExpiry, logoutPc, apiVars>>

GetAuthTokenDirectSettle(ok, decoded) ==
    /\ gPc = "wait"
    /\ fetch[Direct].st = "req"
    /\ IdpIssues(Direct, ok)
    /\ cachedToken' = GatSettledToken(Direct, ok)
    /\ tokenExpiry' = GatSettledExpiry(Direct, ok, decoded)
    /\ gRet' = GatSettledToken(Direct, ok)
    /\ gPc' = "returned"
    /\ UNCHANGED <<appVars, uiVars, now, currentUser, gForce, logoutPc, apiVars>>

\* The direct caller has taken the returned value.
GetAuthTokenDirectDone ==
    /\ gPc = "returned"
    /\ gPc' = "idle"
    /\ gRet' = NoToken
    /\ gForce' = FALSE
    /\ UNCHANGED <<appVars, uiVars, now, currentUser, idpToken, issued, cachedToken, tokenExpiry,
                   fetch, logoutPc, apiVars>>

\* refreshAuthToken, lines 374-381: null without a user, else the fetch starts.
RefreshAuthToken ==
    /\ fetch[Refresher].st = "none"
    /\ currentUser # NoUser
    /\ fetch' = [fetch EXCEPT ![Refresher] = StartedFetch(0, currentUser)]
    /\ UNCHANGED <<appVars, uiVars, now, currentUser, idpToken, issued, cachedToken, tokenExpiry,
                   gPc, gForce, gRet, logoutPc, apiVars>>

\* refreshAuthToken, lines 381-387: a resolved fetch replaces cachedToken and
\* leaves tokenExpiry; a rejected one leaves both.
RefreshAuthTokenSettle(ok) ==
    /\ fetch[Refresher].st = "req"
    /\ IdpIssues(Refresher, ok)
    /\ cachedToken' = IF ok THEN NewToken(fetch[Refresher].u) ELSE cachedToken
    /\ UNCHANGED <<appVars, uiVars, now, currentUser, tokenExpiry, gPc, gForce, gRet, logoutPc, apiVars>>

\* loginWithEmailAndPassword, lines 131-137: the cached token is cleared
\* (tokenExpiry is left), then the sign-in is awaited; when it succeeds the
\* identity provider establishes the session (SignIn).
LoginWithEmailAndPassword ==
    /\ logoutPc = "idle"
    /\ cachedToken' = NoToken
    /\ UNCHANGED <<appVars, uiVars, now, currentUser, idpToken, issued, tokenExpiry, fetch, gPc, gForce,
                   gRet, logoutPc, apiVars>>

\* logout, lines 249-264: the cache is cleared, then signOut is awaited.
LogoutStarts ==
    /\ logoutPc = "idle"
    /\ currentUser # NoUser
    /\ cachedToken' = NoToken
    /\ tokenExpiry' = 0
    /\ logoutPc' = "signOut"
    /\ UNCHANGED <<appVars, subVars, crudVars, now, currentUser, idpToken, issued, fetch,
                   gPc, gForce, gRet, apiVars>>

Logout == LogoutStarts /\ UNCHANGED ctxVars

\* signOut settles: auth.currentUser becomes null and onIdTokenChanged fires
\* with no user (handler lines 66-69); logout returns.
SignOutSettle ==
    /\ logoutPc = "signOut"
    /\ currentUser' = NoUser
    /\ cachedToken' = NoToken
    /\ tokenExpiry' = 0
    /\ logoutPc' = "idle"
    /\ heard' = NotifyListeners(NoUser) \o ProviderNotifies(NoUser)
    /\ AuthProviderHears(NotifyListeners(NoUser) \o ProviderNotifies(NoUser), NoUser)
    /\ UNCHANGED <<appVars, crudVars, authStateListeners, observers, ctxPc, ctxHandle, now,
                   idpToken,
                   issued, fetch, gPc, gForce, gRet, apiVars>>

\* ------------------------------------------- AuthContext.js, AuthProvider
\* The effect of AuthProvider, lines 20-43, runs after its first render: its
\* callback is subscribed and the handle is kept for the cleanup.
MountAuthProvider ==
    /\ ctxHandle = 0
    /\ Len(observers) < MaxSubs
    /\ authStateListeners' = Registered(AuthProviderCallback)
    /\ observers' = Append(observers, [cb |-> AuthProviderCallback, active |-> TRUE])
    /\ ctxHandle' = Len(observers) + 1
    /\ UNCHANGED <<heard, authContext, verifying, ctxPc, appVars, crudVars, now, authVars, apiVars>>

\* The callback after `await checkAuthStatus()`, lines 28-42, for the k-th
\* of the pending verifications: the user data of the backend becomes
\* currentUser, a failure sets the error and resets currentUser.
CheckAuthStatusSettle(k, ok) ==
    /\ k \in 1..Len(verifying)
    /\ verifying' = SubSeq(verifying, 1, k - 1) \o SubSeq(verifying, k + 1, Len(verifying))
    /\ authContext' =
        IF ok
        THEN [authContext EXCEPT !.currentUser = [firebaseUser |-> verifying[k].user,
                                                  stale |-> verifying[k].stale],
                                 !.loading = FALSE]
        ELSE [authContext EXCEPT !.currentUser = NoCtxUser, !.error = TRUE,
                                 !.loading = FALSE]
    /\ UNCHANGED <<subVars, ctxPc, ctxHandle, appVars, crudVars, now, authVars, apiVars>>

\* logout of the context, lines 98-102: loading is set, the error is
\* cleared and logout() of the auth service is awaited.
CtxLogout ==
    /\ ctxPc = "idle"
    /\ LogoutStarts
    /\ authContext' = [authContext EXCEPT !.loading = TRUE, !.error = FALSE]
    /\ ctxPc' = "logout"
    /\ UNCHANGED <<verifying, ctxHandle>>

\* logout of the context after the await, lines 103-109: currentUser is
\* set to null and loading is reset.
CtxLogoutSettle ==
    /\ ctxPc = "logout"
    /\ logoutPc = "idle"
    /\ ctxPc' = "idle"
    /\ authContext' = [authContext EXCEPT !.currentUser = NoCtxUser, !.loading = FALSE]
    /\ verifying' = [i \in 1..Len(verifying) |-> [verifying[i] EXCEPT !.stale = TRUE]]
    /\ UNCHANGED <<subVars, ctxHandle, appVars, crudVars, now, authVars, apiVars>>

\* ProtectedRoute, lines 5-27: what it renders.
ProtectedRoute ==
    IF authContext.loading THEN "spinner"
    ELSE IF authContext.currentUser = NoCtxUser THEN "login"
    ELSE "children"

\* ------------------------------------------------------------ api.js
\* Number of dispatches call c has made (the one in flight included).
Dispatches(c) == Len(log[c]) + (IF pc[c] = "inflight" THEN 1 ELSE 0)

\* Request interceptor, lines 34-53, run for every call of S on the configs
\* whose headers are h: getAuthToken() is called without forceRefresh; a call
\* that gets a value at once has it attached (when not null) and is
\* dispatched; the others suspend on their own getIdToken(true).
Submit(S, h) ==
    /\ pc' = [c \in Calls |->
                IF c \in S
                THEN (IF GatImmediate(FALSE) THEN "inflight" ELSE "token")
                ELSE pc[c]]
    /\ hdr' = [c \in Calls |->
                IF c \in S /\ GatImmediate(FALSE) /\ GatValue(FALSE) # NoToken
                THEN GatValue(FALSE)
                ELSE h[c]]
    /\ fetch' = [r \in Fetchers |->
                IF r \in S /\ ~GatImmediate(FALSE)
                THEN StartedFetch(now, currentUser)
                ELSE fetch[r]]
    /\ cachedToken' = IF S # {} /\ GatNoUser THEN NoToken ELSE cachedToken

\* A public API function is called: handleApiRequest starts attempt 0 and
\* apiCall() hands a new config to the request interceptor.
StartCall(c) ==
    /\ pc[c] = "idle"
    /\ Submit({c}, hdr)
    /\ UNCHANGED <<appVars, uiVars, now, currentUser, idpToken, issued, tokenExpiry, gPc, gForce,
                   gRet, logoutPc, isRefreshingToken, tokenRefreshPromise,
                   attempt, delay, isRetry, log, result, errVars, timers>>

\* Request interceptor after getAuthToken's fetch settled, lines 42-48 (with
\* getAuthToken lines 301-318): the token is cached and attached, or the
\* request goes out with the headers its config had.
TokenSettle(c, ok, decoded) ==
    /\ pc[c] = "token"
    /\ fetch[c].st = "req"
    /\ IdpIssues(c, ok)
    /\ cachedToken' = GatSettledToken(c, ok)
    /\ tokenExpiry' = GatSettledExpiry(c, ok, decoded)
    /\ hdr' = [hdr EXCEPT ![c] = IF ok THEN GatSettledToken(c, ok) ELSE @]
    /\ pc' = [pc EXCEPT ![c] = "inflight"]
    /\ UNCHANGED <<appVars, uiVars, now, currentUser, gPc, gForce, gRet, logoutPc, isRefreshingToken,
                   tokenRefreshPromise, attempt, delay, isRetry, log, result,
                   errVars, timers>>

\* Variant: a 200 status is not a success.
IsSuccess_Exclusive(o) == o > 200 /\ o < 300

\* axios resolves on a 2xx status.
IsSuccess(o) == o >= 200 /\ o < 300

\* Variant: the interceptor also takes a timeout over.
TakenOver_AlsoTimeout(c, o) == o \in {401, TIMEOUT} /\ ~isRetry[c]

\* Variant: the interceptor takes no 401 over.
TakenOver_Never(c, o) == FALSE

\* Response interceptor, lines 76-77: a 401 on a config that is not marked
\* __isRetryRequest is taken over by the interceptor.
TakenOver(c, o) == o = 401 /\ ~isRetry[c]

\* Variant: a resubmission always settles with the original 401 error.
ApiCallResult_RejectsOriginal(c, o) ==
    IF isRetry[c] THEN 401
    ELSE o

\* What apiCall() settles with when the dispatch of c ends with outcome o and
\* the interceptor does not take it over: the response, or the error.  The
\* rejection of a resubmission is caught by the .catch of lines 87-90 /
\* 108-111, which rejects with the original 401 error.
ApiCallResult(c, o) ==
    IF IsSuccess(o) THEN o
    ELSE IF isRetry[c] THEN 401
    ELSE o

\* Variant: the lower bound of the 4xx test is exclusive.
IsClientError_Exclusive(e) == e > 400 /\ e < 500 /\ e # 401

\* handleApiRequest, line 145: a 4xx status other than 401 ends the loop.
IsClientError(e) == e >= 400 /\ e < 500 /\ e # 401

\* Variant: the loop stops one attempt early.
LoopEnds_OneEarly(c, e) == IsClientError(e) \/ attempt[c] + 1 >= MAX_RETRIES

\* handleApiRequest, lines 141-154: the loop ends on a client error or on the
\* last attempt.
LoopEnds(c, e) == IsClientError(e) \/ attempt[c] = MAX_RETRIES

\* Variant: the loop skips an attempt number.
NextAttempt_Skips(a) == a + 2

\* handleApiRequest, line 132: attempt++.
NextAttempt(a) == a + 1

\* Variant: every backoff sleep lasts retryDelay.
BackoffDelay_Constant(k) == RETRY_DELAY

\* handleApiRequest, line 136: sleep(retryDelay * attempt).
BackoffDelay(k) == RETRY_DELAY * k

\* Variant: every 401 taken over starts a refresh of its own.
StartsRefresh_Always == TRUE

\* Response interceptor, line 83: a new refresh promise (and its timer) is
\* created unless a refresh is in progress.
StartsRefresh == ~isRefreshingToken

\* The message of the error the transport rejects with (axios).
RawMessage(o) ==
    IF o > 0 THEN Msg("Request failed with status code", o, NoDetail)
    ELSE IF o = NETWORK THEN Msg("Network Error", 0, NoDetail)
    ELSE IF o = TIMEOUT THEN Msg("timeout of 15000ms exceeded", 0, NoDetail)
    ELSE IF o = SETUP THEN Msg("Invalid URL", 0, NoDetail)
    ELSE Msg("", 0, NoDetail)

\* The error object the transport rejects with for outcome o, the response
\* body carrying detail d.
RawError(o, d) ==
    Err(RawMessage(o),
        IF o > 0 THEN [status |-> o, detail |-> d] ELSE NoResponse,
        Undefined)

\* The error apiCall() rejects with: the error of the dispatch, or, for a
\* resubmission, the 401 error held by the closure of lines 87-90 / 108-111.
ApiCallError(c, o, d) == IF isRetry[c] THEN intercepted[c] ELSE RawError(o, d)

\* handleApiRequest, line 187: lastError.message.includes('timeout').
MentionsTimeout(m) == m.text = "timeout of 15000ms exceeded"

\* Variant: only a status 500 message takes the detail of the body.
ErrorMessage_DetailOn500Only(lastError) ==
    IF lastError.response # NoResponse
    THEN IF lastError.response.status = 500
         THEN Msg("Server error: The application encountered an internal error",
                  0, lastError.response.detail)
         ELSE Msg("Error", lastError.response.status, NoDetail)
    ELSE IF lastError.message.text # ""
    THEN IF MentionsTimeout(lastError.message)
         THEN Msg("Request timed out. Please check your connection and try again.",
                  0, NoDetail)
         ELSE lastError.message
    ELSE Msg("An unknown error occurred", 0, NoDetail)

\* handleApiRequest, lines 168-190: the message formatted for the UI.
ErrorMessage(lastError) ==
    IF lastError.response # NoResponse
    THEN IF lastError.response.status = 500
         THEN Msg("Server error: The application encountered an internal error",
                  0, lastError.response.detail)
         ELSE IF lastError.response.detail # NoDetail
         THEN Msg("", 0, lastError.response.detail)
         ELSE Msg("Error", lastError.response.status, NoDetail)
    ELSE IF lastError.message.text # ""
    THEN IF MentionsTimeout(lastError.message)
         THEN Msg("Request timed out. Please check your connection and try again.",
                  0, NoDetail)
         ELSE lastError.message
    ELSE Msg("An unknown error occurred", 0, NoDetail)

\* Variant: the error of the last attempt is rethrown as it is.
EnhancedError_Rethrown(lastError) == lastError

\* handleApiRequest, lines 193-195: the error thrown to the caller.
EnhancedError(lastError) == Err(ErrorMessage(lastError), NoResponse, lastError)

\* The transport settles the dispatch of c with outcome o (and, for an error
\* response, body detail d).
\*  - 401 on a config not yet marked: response interceptor lines 76-111, the
\*    config is marked and the request waits for the refresh promise, which
\*    is created (with its one-second timer) unless one is pending;
\*  - 2xx: the response reaches apiCall, handleApiRequest returns its data;
\*  - otherwise the error reaches the catch of handleApiRequest, which ends
\*    the call (throwing the error formatted for the UI) or goes on to the
\*    next attempt, which starts with its backoff sleep.
Respond(c, o, d) ==
    /\ pc[c] = "inflight"
    /\ d # NoDetail => o >= 400
    /\ log' = [log EXCEPT ![c] = Append(@, o)]
    /\ IF TakenOver(c, o)
       THEN /\ isRetry' = [isRetry EXCEPT ![c] = TRUE]
            /\ pc' = [pc EXCEPT ![c] = "refreshWait"]
            /\ isRefreshingToken' = TRUE
            /\ tokenRefreshPromise' = "pending"
            /\ timers' = IF StartsRefresh THEN timers + 1 ELSE timers
            /\ intercepted' = [intercepted EXCEPT ![c] = RawError(o, d)]
            /\ UNCHANGED <<attempt, delay, result, caught>>
       ELSE IF IsSuccess(ApiCallResult(c, o)) \/ LoopEnds(c, ApiCallResult(c, o))
       THEN /\ pc' = [pc EXCEPT ![c] = "done"]
            /\ result' = [result EXCEPT ![c] = ApiCallResult(c, o)]
            /\ caught' = [caught EXCEPT ![c] =
                            IF IsSuccess(ApiCallResult(c, o)) THEN Undefined
                            ELSE EnhancedError(ApiCallError(c, o, d))]
            /\ intercepted' = [intercepted EXCEPT ![c] = Undefined]
            /\ UNCHANGED <<attempt, delay, isRetry, isRefreshingToken,
                           tokenRefreshPromise, timers>>
       ELSE /\ pc' = [pc EXCEPT ![c] = "sleep"]
            /\ attempt' = [attempt EXCEPT ![c] = NextAttempt(@)]
            /\ delay' = [delay EXCEPT ![c] = BackoffDelay(NextAttempt(attempt[c]))]
            /\ intercepted' = [intercepted EXCEPT ![c] = Undefined]
            /\ UNCHANGED <<result, caught, isRetry, isRefreshingToken,
                           tokenRefreshPromise, timers>>
    /\ UNCHANGED <<appVars, uiVars, now, authVars, hdr>>

\* Variant: only the first request waiting on the promise is resumed.
Waiters_FirstOnly ==
    {c \in Calls : pc[c] = "refreshWait"
                    /\ \A w \in Calls : pc[w] = "refreshWait" => c <= w}

\* The requests whose then-callback waits on tokenRefreshPromise (lines 84,
\* 105).
Waiters == {c \in Calls : pc[c] = "refreshWait"}

\* The one-second timer of lines 99-102 fires: isRefreshingToken is reset,
\* the promise resolves and every request waiting on it is handed to
\* apiClient again (lines 84-86, 105-107) with its marked config.
RefreshTimer ==
    /\ timers > 0
    /\ timers' = timers - 1
    /\ isRefreshingToken' = FALSE
    /\ tokenRefreshPromise' = "resolved"
    /\ Submit(Waiters, hdr)
    /\ UNCHANGED <<appVars, uiVars, now, currentUser, idpToken, issued, tokenExpiry, gPc, gForce,
                   gRet, logoutPc, attempt, delay, isRetry, log, result, errVars>>

\* handleApiRequest, lines 135-140: the backoff sleep is over, the attempt
\* calls apiCall(), which builds a new config.
RetryCall(c) ==
    /\ pc[c] = "sleep"
    /\ isRetry' = [isRetry EXCEPT ![c] = FALSE]
    /\ delay' = [delay EXCEPT ![c] = 0]
    /\ Submit({c}, [hdr EXCEPT ![c] = NoToken])
    /\ UNCHANGED <<appVars, uiVars, now, currentUser, idpToken, issued, tokenExpiry, gPc, gForce,
                   gRet, logoutPc, isRefreshingToken, tokenRefreshPromise,
                   attempt, log, result, errVars, timers>>

\* ------------------------------------------------------------ App.js
\* fetchTodos, the call loadData makes, is call 1 of the client.
FetchTodos == 1

\* Load effect, lines 47-82: loadData runs up to `await fetchTodos()`:
\* setLoading(true), and fetchTodos starts (handleApiRequest attempt 0 hands
\* the request to the request interceptor).
LoadEffect ==
    /\ effects # <<>>
    /\ Head(effects) = "load"
    /\ pc[FetchTodos] = "idle"
    /\ effects' = Tail(effects)
    /\ loading' = TRUE
    /\ loadPc' = "fetching"
    /\ Submit({FetchTodos}, hdr)
    /\ UNCHANGED <<tasks, githubSettings, localStorage, saved, apiTasks, now,
                   currentUser, idpToken, issued, tokenExpiry, gPc, gForce, gRet,
                   logoutPc, isRefreshingToken, tokenRefreshPromise, attempt, delay,
                   isRetry, log, result, errVars, timers, uiVars>>

\* Save-tasks effect, lines 85-87 (runs after mount and whenever tasks
\* changed).
SaveTasksEffect ==
    /\ effects # <<>>
    /\ Head(effects) = "saveTasks"
    /\ effects' = Tail(effects)
    /\ localStorage' = [localStorage EXCEPT !["codingTasks"] = Stringify(tasks)]
    /\ UNCHANGED <<tasks, githubSettings, loading, saved, loadPc, apiTasks, now,
                   authVars, apiVars, uiVars>>

\* Save-settings effect, lines 90-92 (after mount and whenever
\* githubSettings changed).
SaveSettingsEffect ==
    /\ effects # <<>>
    /\ Head(effects) = "saveSettings"
    /\ effects' = Tail(effects)
    /\ localStorage' = [localStorage EXCEPT !["githubSettings"] = Stringify(githubSettings)]
    /\ UNCHANGED <<tasks, githubSettings, loading, saved, loadPc, apiTasks, now,
                   authVars, apiVars, uiVars>>

\* loadData, line 54: the API answered with a non-empty task list.
UsesApi(data) == IsSuccess(result[FetchTodos]) /\ data # NoTasks

\* loadData, lines 67-72: a state is replaced by the parsed item when
\* getItem returned a string.
Restored(item, current) == IF item # Null THEN Parse(item) ELSE current

\* The effects a render runs after loadData's state updates: the setter of
\* a state was called with a new object.
Rerun(tasksSet, settingsSet) ==
    (IF tasksSet THEN <<"saveTasks">> ELSE <<>>)
        \o (IF settingsSet THEN <<"saveSettings">> ELSE <<>>)

\* loadData after `await fetchTodos()`, lines 53-78, data being what the
\* API answered with: the tasks of the API are taken when there are some;
\* a failure or an empty answer falls back to localStorage. The
\* continuation runs after the effects of the render before it.
LoadDataSettle(data) ==
    /\ loadPc = "fetching"
    /\ pc[FetchTodos] = "done"
    /\ effects = <<>>
    /\ ~IsSuccess(result[FetchTodos]) => data = NoTasks
    /\ apiTasks' = data
    /\ loadPc' = "done"
    /\ loading' = FALSE
    /\ IF UsesApi(data)
       THEN /\ tasks' = data
            /\ effects' = Rerun(TRUE, FALSE)
            /\ UNCHANGED githubSettings
       ELSE /\ tasks' = Restored(localStorage["codingTasks"], tasks)
            /\ githubSettings' = Restored(localStorage["githubSettings"], githubSettings)
            /\ effects' = Rerun(localStorage["codingTasks"] # Null,
                                localStorage["githubSettings"] # Null)
    /\ UNCHANGED <<localStorage, saved, now, authVars, apiVars, uiVars>>

\* --------------------------------------------- App.js, task operations
\* A task is named by a number: its id, whether its content was edited in
\* the form and whether its status was changed in the list.
TaskId(t) == t % 10
Edited(t) == IF (t \div 10) % 2 = 1 THEN t ELSE t + 10
StatusChanged(t) == IF t \div 20 = 1 THEN t ELSE t + 20

\* handleSubmit, lines 244-250: the task created by the submission that
\* awaits call c (ids come from Date.now(): those of different
\* submissions differ from each other and from the saved ones).
NewTask(c) == MaxSaved + c

\* Variant: the operation is applied only when the API call succeeded.
Applied_OnSuccessOnly(o, list, res) ==
    IF ~IsSuccess(res) THEN list
    ELSE IF o.kind = "create" THEN Append(list, o.task)
    ELSE IF o.kind = "update"
    THEN [i \in 1..Len(list) |-> IF TaskId(list[i]) = TaskId(o.task) THEN o.task ELSE list[i]]
    ELSE SelectSeq(list, LAMBDA t : TaskId(t) # TaskId(o.task))

\* The argument of setTasks, lines 238-240, 259 and 331, for operation o on
\* the given list, res being the outcome of the API call: the inner
\* try/catch swallows a failure, so the outcome makes no difference.
Applied(o, list, res) ==
    IF o.kind = "create" THEN Append(list, o.task)
    ELSE IF o.kind = "update"
    THEN [i \in 1..Len(list) |-> IF TaskId(list[i]) = TaskId(o.task) THEN o.task ELSE list[i]]
    ELSE SelectSeq(list, LAMBDA t : TaskId(t) # TaskId(o.task))

\* The handlers of the task list are those of the latest render; the list
\* is rendered when loading is over, and an event is handled after the
\* effects of the render.
Interactive == ~loading /\ effects = <<>>

\* The button "New Task", line 553: the form opens over the list.
NewTaskButton ==
    /\ Interactive
    /\ ~showForm
    /\ showForm' = TRUE
    /\ UNCHANGED <<editingTask, op, subVars, ctxVars, appVars, now, authVars, apiVars>>

\* handleEdit, lines 303-319: the form opens for the task.
HandleEdit(task) ==
    /\ Interactive
    /\ ~showForm
    /\ task \in Range(tasks)
    /\ editingTask' = task
    /\ showForm' = TRUE
    /\ UNCHANGED <<op, subVars, ctxVars, appVars, now, authVars, apiVars>>

\* The button "Cancel" of the form, lines 977-981.
CancelForm ==
    /\ Interactive
    /\ showForm
    /\ showForm' = FALSE
    /\ editingTask' = 0
    /\ UNCHANGED <<op, subVars, ctxVars, appVars, now, authVars, apiVars>>

\* An operation starts: its handler keeps the tasks of its render and
\* awaits the API function, whose request goes through the interceptor.
Starts(c, kind, task) ==
    /\ Interactive
    /\ pc[c] = "idle"
    /\ op[c].st = "none"
    /\ op' = [op EXCEPT ![c] = [st |-> "await", kind |-> kind, task |-> task,
                               snapshot |-> tasks]]
    /\ Submit({c}, hdr)
    /\ UNCHANGED <<editingTask, showForm, subVars, ctxVars, appVars, now, currentUser,
                   idpToken, issued, tokenExpiry, gPc, gForce, gRet, logoutPc, isRefreshingToken,
                   tokenRefreshPromise, attempt, delay, isRetry, log, result, errVars,
                   timers>>

\* handleSubmit, lines 210-257, of a form with a title and without a GitHub
\* issue: updateTodo for the task being edited, createTodo otherwise.
HandleSubmit(c) ==
    /\ showForm
    /\ IF editingTask # 0
       THEN Starts(c, "update", Edited(editingTask))
       ELSE Starts(c, "create", NewTask(c))

\* handleDelete, lines 321-326, the user having confirmed.
HandleDelete(c, task) ==
    /\ ~showForm
    /\ task \in Range(tasks)
    /\ Starts(c, "delete", task)

\* The handler after its await, lines 234-241, 255-276 and 327-331: setTasks
\* is called with the operation applied to the tasks the handler kept,
\* handleSubmit closes the form, and the render that follows runs the
\* save-tasks effect.
OperationSettle(c) ==
    /\ op[c].st = "await"
    /\ pc[c] = "done"
    /\ effects = <<>>
    /\ tasks' = Applied(op[c], op[c].snapshot, result[c])
    /\ editingTask' = IF op[c].kind = "update" THEN 0 ELSE editingTask
    /\ showForm' = IF op[c].kind = "delete" THEN showForm ELSE FALSE
    /\ op' = [op EXCEPT ![c].st = "applied"]
    /\ effects' = Rerun(TRUE, FALSE)
    /\ UNCHANGED <<githubSettings, loading, localStorage, saved, loadPc, apiTasks,
                   subVars, ctxVars, now, authVars, apiVars>>

\* handleStatusChange, lines 339-345.
HandleStatusChange(task) ==
    /\ Interactive
    /\ ~showForm
    /\ task \in Range(tasks)
    /\ StatusChanged(task) # task
    /\ tasks' = [i \in 1..Len(tasks) |->
                    IF TaskId(tasks[i]) = TaskId(task) THEN StatusChanged(tasks[i])
                    ELSE tasks[i]]
    /\ effects' = Rerun(TRUE, FALSE)
    /\ UNCHANGED <<githubSettings, loading, localStorage, saved, loadPc, apiTasks,
                   uiVars, now, authVars, apiVars>>

\* ------------------------------------------------------- specifications
\* The steps of one logical call against a backend answering from outs, with
\* body details from dets.
CallStep(c, outs, dets) ==
    \/ StartCall(c)
    \/ \E ok \in BOOLEAN, d \in BOOLEAN : TokenSettle(c, ok, d)
    \/ \E o \in outs, d \in dets : Respond(c, o, d)
    \/ RetryCall(c)

\* The session: sign-in and the token-change handler.
SessionStep ==
    \/ SignIn
    \/ \E ok \in BOOLEAN : HandlerSettle(ok)

\* The client in its environment: one logical call, the clock, login,
\* sign-in and sign-out, refreshAuthToken.
Next ==
    \/ Tick
    \/ SessionStep
    \/ RefreshAuthToken
    \/ \E ok \in BOOLEAN : RefreshAuthTokenSettle(ok)
    \/ LoginWithEmailAndPassword
    \/ Logout
    \/ SignOutSettle
    \/ RefreshTimer
    \/ \E c \in OneCall : CallStep(c, AuthOutcomes, {NoDetail})

Spec == Init /\ [][Next]_vars

\* Token freshness: one logical call and direct getAuthToken calls, with
\* and without forceRefresh, as the clock advances.
NextFresh ==
    \/ Tick
    \/ SessionStep
    \/ \E f \in BOOLEAN : GetAuthTokenDirect(f)
    \/ \E ok \in BOOLEAN, d \in BOOLEAN : GetAuthTokenDirectSettle(ok, d)
    \/ GetAuthTokenDirectDone
    \/ \E c \in OneCall : CallStep(c, FreshOutcomes, {NoDetail})

SpecFresh == Init /\ [][NextFresh]_vars

\* One logical call against a backend that can answer with every outcome.
NextPipe ==
    \/ SessionStep
    \/ RefreshTimer
    \/ \E c \in OneCall : CallStep(c, Outcomes, {NoDetail})

SpecPipe == Init /\ [][NextPipe]_vars

\* Concurrent logical calls sharing the token cache and the refresh guard.
NextConc ==
    \/ SessionStep
    \/ RefreshTimer
    \/ \E c \in Calls : CallStep(c, ConcOutcomes, {NoDetail})

SpecConc == Init /\ [][NextConc]_vars

\* Concurrent calls made while no user is signed in (every request goes out
\* without a token) against a backend that answers 401 or not at all.
NextCancel ==
    \/ RefreshTimer
    \/ \E c \in Calls :
        \/ StartCall(c)
        \/ \E o \in CancelOutcomes : Respond(c, o, NoDetail)
        \/ RetryCall(c)

SpecCancel == Init /\ [][NextCancel]_vars

\* The same, the event loop running the callback of a timer that is due.
SpecCancelFair == SpecCancel /\ WF_vars(RefreshTimer)

\* App is mounted: its effects, loadData and the fetchTodos call it awaits.
MountOutcomes == {200, 401, 500}

NextMount ==
    \/ LoadEffect
    \/ SaveTasksEffect
    \/ SaveSettingsEffect
    \/ \E data \in ApiTasks : LoadDataSettle(data)
    \/ SessionStep
    \/ RefreshTimer
    \/ \E ok \in BOOLEAN, d \in BOOLEAN : TokenSettle(FetchTodos, ok, d)
    \/ \E o \in MountOutcomes : Respond(FetchTodos, o, NoDetail)
    \/ RetryCall(FetchTodos)

SpecMount == InitMount /\ [][NextMount]_vars

\* Two users of one browser: sign-in as either, login, sign-out, and one
\* logical call against a backend that answers or fails.
UserOutcomes == {200, 500}

NextUsers ==
    \/ \E u \in Users : SignInAs(u)
    \/ \E ok \in BOOLEAN : HandlerSettle(ok)
    \/ LoginWithEmailAndPassword
    \/ Logout
    \/ SignOutSettle
    \/ \E c \in OneCall : CallStep(c, UserOutcomes, {NoDetail})

SpecUsers == Init /\ [][NextUsers]_vars

\* One logical call whose failures take every shape: error responses with
\* and without a detail, no response, timeout, request-setup errors.
NextErr ==
    \/ SessionStep
    \/ RefreshTimer
    \/ \E c \in OneCall : CallStep(c, ErrOutcomes, Details)

SpecErr == Init /\ [][NextErr]_vars

\* Callbacks subscribe to and unsubscribe from the auth state while the
\* session is established and ended.
NextListen ==
    \/ \E l \in Listeners : Subscribe(l)
    \/ \E h \in 1..MaxSubs : Unsubscribe(h)
    \/ SignIn
    \/ \E ok \in BOOLEAN : HandlerSettle(ok)
    \/ Logout
    \/ SignOutSettle

SpecListen == Init /\ [][NextListen]_vars

\* AuthProvider is mounted while sessions are established and ended and
\* the backend answers its verifications.
NextCtx ==
    \/ MountAuthProvider
    \/ SignIn
    \/ \E ok \in BOOLEAN : HandlerSettle(ok)
    \/ CtxLogout
    \/ SignOutSettle
    \/ CtxLogoutSettle
    \/ \E k \in 1..(2 * MaxTokens), ok \in BOOLEAN : CheckAuthStatusSettle(k, ok)

SpecCtx == Init /\ [][NextCtx]_vars

\* App has been mounted and loadData has restored the task list of the
\* previous session from localStorage; nobody is signed in.
InitCrud ==
    /\ InitClient
    /\ \E list \in {NoTasks, <<1>>} :
        /\ tasks = list
        /\ localStorage = [k \in Keys |-> IF k = "codingTasks" THEN Stringify(list)
                                          ELSE Stringify(DefaultSettings)]
        /\ saved = [k \in Keys |-> IF k = "codingTasks" THEN Stringify(list) ELSE Null]
    /\ githubSettings = DefaultSettings
    /\ loading = FALSE
    /\ effects = <<>>
    /\ loadPc = "done"
    /\ apiTasks = NoTasks

\* The user edits, submits, deletes and changes the status of tasks while
\* the backend answers or fails.
CrudOutcomes == {201, 500}
TwoCalls == {1, 2}
AllTasks == {i + 10 * v : i \in 1..(MaxSaved + NumCalls), v \in 0..3}
NextCrud ==
    \/ NewTaskButton
    \/ \E t \in AllTasks : HandleEdit(t)
    \/ CancelForm
    \/ \E c \in TwoCalls : HandleSubmit(c)
    \/ \E c \in TwoCalls, t \in AllTasks : HandleDelete(c, t)
    \/ \E t \in AllTasks : HandleStatusChange(t)
    \/ \E c \in TwoCalls : OperationSettle(c)
    \/ SaveTasksEffect
    \/ \E c \in TwoCalls, o \in CrudOutcomes : Respond(c, o, NoDetail)
    \/ \E c \in TwoCalls : RetryCall(c)

SpecCrud == InitCrud /\ [][NextCrud]_vars

\* =============================================================== claims
\* Every recorded outcome of call c is o, and there is at least one.
AllOut(c, o) == log[c] # <<>> /\ \A i \in 1..Len(log[c]) : log[c][i] = o

\* The step dispatches call c.
Entering(c) == pc[c] # "inflight" /\ pc'[c] = "inflight"

\* C1 (as stated): single-flight token refresh. API calls that need a token
\* at the same time share one identity-provider fetch: at no time do two
\* calls each have their own getIdToken(true) outstanding.
C1_SingleFlight ==
    Cardinality({c \in Calls : fetch[c].st = "req"}) <= 1

C3_AuthRetryCap ==
    \A c \in Calls :
        AllOut(c, 401) =>
            /\ Len(log[c]) <= 2
            /\ Len(log[c]) = 2 => (pc[c] = "done" /\ result[c] = 401)

\* C4: retry bound. A call whose every dispatch failed with the same 5xx
\* status, network failure or timeout makes at most 1 + MAX_RETRIES
\* dispatches, terminates exactly after that many, with that error.
C4_RetryBound ==
    \A c \in Calls : \A o \in {500, 599, NETWORK, TIMEOUT} :
        AllOut(c, o) =>
            /\ Dispatches(c) <= 1 + MAX_RETRIES
            /\ pc[c] = "done" <=> Len(log[c]) = 1 + MAX_RETRIES
            /\ pc[c] = "done" => result[c] = o

\* C4 witness: a call has terminated after three timeouts.
C4_Witness ==
    \E c \in Calls : pc[c] = "done" /\ log[c] = <<TIMEOUT, TIMEOUT, TIMEOUT>>

\* C5: no retry on client error. A call whose first dispatch returned a 4xx
\* status other than 401 made exactly that one dispatch and has terminated
\* with that error, without entering the backoff sleep.
C5_NoRetryOnClientError ==
    \A c \in Calls :
        (log[c] # <<>> /\ log[c][1] \in (400..499) \ {401}) =>
            /\ Len(log[c]) = 1
            /\ pc[c] = "done"
            /\ attempt[c] = 0
            /\ result[c] = log[c][1]

\* C5 witness: a call has terminated on a 400 answer to its first dispatch.
C5_Witness ==
    \E c \in Calls : pc[c] = "done" /\ log[c] = <<400>>

\* C6: auth recovery. The caller observes nothing before the call ends, and
\* a call whose first dispatch returned 401 and whose resubmission returned
\* 200 has ended after these two dispatches with the successful result.
C6_AuthRecovery ==
    \A c \in Calls :
        /\ pc[c] # "done" => result[c] = NoResult
        /\ (Len(log[c]) >= 2 /\ log[c][1] = 401 /\ log[c][2] = 200) =>
                (Len(log[c]) = 2 /\ pc[c] = "done" /\ result[c] = 200)

\* C6 witness: a call has ended after a 401 followed by a 200.
C6_Witness ==
    \E c \in Calls : pc[c] = "done" /\ log[c] = <<401, 200>>

\* The cached token is fresh: it exists and now + threshold < tokenExpiry.
IsFresh == cachedToken # NoToken /\ now + TOKEN_REFRESH_THRESHOLD < tokenExpiry

\* C7: freshness. With a user signed in, a getAuthToken call (from the
\* request interceptor, or direct) returns the cached token without calling
\* the identity provider iff refresh is not forced and the cached token is
\* fresh; otherwise it starts a fetch, and a request is dispatched only
\* after that fetch has settled.
C7_Freshness ==
    [][/\ \A c \in Calls :
            (pc[c] \in {"idle", "sleep", "refreshWait"} /\ pc'[c] # pc[c]
                /\ currentUser # NoUser) =>
                IF IsFresh
                THEN /\ pc'[c] = "inflight"
                     /\ hdr'[c] = cachedToken
                     /\ fetch' = fetch
                     /\ issued' = issued
                ELSE /\ pc'[c] = "token"
                     /\ fetch'[c].st = "req"
       /\ (gPc = "idle" /\ gPc' # "idle" /\ currentUser # NoUser) =>
                IF ~gForce' /\ IsFresh
                THEN /\ gPc' = "returned"
                     /\ gRet' = cachedToken
                     /\ fetch' = fetch
                     /\ issued' = issued
                ELSE /\ gPc' = "wait"
                     /\ fetch'[Direct].st = "req"
       /\ \A c \in Calls : pc'[c] = "token" => fetch'[c].st = "req"]_vars

\* C7 witness: a request awaits the identity provider although a token is
\* cached, because that token expires exactly at now + threshold.
C7_Witness ==
    /\ \E c \in Calls : pc[c] = "token" /\ fetch[c].t0 = now
    /\ currentUser # NoUser
    /\ cachedToken # NoToken
    /\ tokenExpiry = now + TOKEN_REFRESH_THRESHOLD

\* C8 (as stated): with a user signed in, a request that waited after a 401
\* goes on by awaiting a forced token fetch of the identity provider; it is
\* not dispatched before that fetch.
C8_ForcedRefreshBeforeResubmission ==
    [][\A c \in Calls :
        (pc[c] = "refreshWait" /\ pc'[c] # "refreshWait" /\ currentUser # NoUser)
            => (pc'[c] = "token" /\ fetch'[c].st = "req")]_vars

C10_RefreshFailureEndsCall ==
    [][\A c \in Calls :
        (pc[c] = "token" /\ isRetry[c] /\ pc'[c] # "token" /\ cachedToken' = NoToken)
            => (pc'[c] = "done" /\ result'[c] = 401)]_vars

\* C11: every failure of a public API function reaches the caller as the
\* error object built by handleApiRequest: a new error with a display
\* message and without transport fields, holding the raw transport error of
\* the failure under originalError only; nothing is caught before the call
\* ends or when it succeeds. This holds for every failure shape (response
\* with status, no response, timeout, request-setup error).
C11_NormalizedError ==
    \A c \in Calls :
        IF pc[c] = "done" /\ ~IsSuccess(result[c])
        THEN /\ caught[c] # Undefined
             /\ caught[c].response = NoResponse
             /\ caught[c].message.text # "" \/ caught[c].message.detail # NoDetail
             /\ caught[c].originalError # Undefined
             /\ caught[c].originalError.originalError = Undefined
             /\ caught[c].originalError.message = RawMessage(result[c])
        ELSE caught[c] = Undefined

\* C11 witness: a call has ended after an error response, a lost connection
\* and a request-setup error, and its caller holds the normalized error.
C11_Witness ==
    \E c \in Calls :
        /\ pc[c] = "done"
        /\ log[c] = <<503, NETWORK, SETUP>>
        /\ caught[c].originalError = RawError(SETUP, NoDetail)

\* The call has ended with an error.
Failed(c) == pc[c] = "done" /\ ~IsSuccess(result[c])

\* The error has a response with a 5xx status and a detail in its body.
ServerDetail(e) ==
    /\ e.response.status >= 500
    /\ e.response.status <= 599
    /\ e.response.detail # NoDetail

\* C19 (as stated): the message of every surfaced error differs from the
\* message of the raw transport error, whatever its kind, and for a 5xx
\* response with a detail it includes that detail.
C19_MessageDistinctFromRaw ==
    \A c \in Calls :
        Failed(c) =>
            /\ caught[c].message # caught[c].originalError.message
            /\ ServerDetail(caught[c].originalError) =>
                    caught[c].message.detail = caught[c].originalError.response.detail

\* C19 (amended): the message differs from the raw transport message when
\* the error has a response (auth, client and server errors), is a timeout
\* or has no message; an error without response whose message does not
\* mention a timeout (network failure, request-setup error) is surfaced with
\* the raw transport message itself. For a 5xx response with a detail the
\* message includes that detail.
C19_DisplayMessage ==
    \A c \in Calls :
        Failed(c) =>
            /\ IF /\ caught[c].originalError.response = NoResponse
                  /\ caught[c].originalError.message.text # ""
                  /\ ~MentionsTimeout(caught[c].originalError.message)
               THEN caught[c].message = caught[c].originalError.message
               ELSE caught[c].message # caught[c].originalError.message
            /\ ServerDetail(caught[c].originalError) =>
                    caught[c].message.detail = caught[c].originalError.response.detail

\* C19 witness: a call has ended after three network failures and its
\* caller holds an error whose message is the transport's.
C19_Witness ==
    \E c \in Calls :
        /\ Failed(c)
        /\ log[c] = <<NETWORK, NETWORK, NETWORK>>
        /\ caught[c].message = RawMessage(NETWORK)

\* C12: in-flight refresh guard of the 401 handler. At most one refresh is
\* pending, and isRefreshingToken / tokenRefreshPromise mark exactly that;
\* a 401 taken over while a refresh is pending waits without creating a
\* second one; the marker is cleared only when the pending refresh settles,
\* in the step in which every waiter, however many, is resumed.
C12_RefreshGuard ==
    [][/\ timers' <= 1
       /\ isRefreshingToken' <=> timers' = 1
       /\ isRefreshingToken' <=> tokenRefreshPromise' = "pending"
       /\ \A c \in Calls :
            (pc[c] = "inflight" /\ pc'[c] = "refreshWait" /\ isRefreshingToken)
                => (timers' = timers /\ isRefreshingToken')
       /\ (isRefreshingToken /\ ~isRefreshingToken') => (timers = 1 /\ timers' = 0)
       /\ \A c \in Calls :
            (pc[c] = "refreshWait" /\ pc'[c] # "refreshWait") =>
                /\ isRefreshingToken /\ ~isRefreshingToken'
                /\ \A w \in Calls : pc[w] = "refreshWait" => pc'[w] # "refreshWait"]_vars

\* C12 witness: every call waits after a 401 and one refresh is pending.
C12_Witness ==
    /\ \A c \in Calls : pc[c] = "refreshWait"
    /\ timers = 1
    /\ isRefreshingToken

\* C13 (as stated): the token cache is cleared on sign-out. Whenever no user
\* is signed in and no logout is under way (logout has completed, or the
\* token-change callback has reported no user, and no new sign-in happened),
\* no token is cached, whatever token fetches were in flight when the
\* session ended.
C13_ClearedOnSignOut ==
    (currentUser = NoUser /\ logoutPc = "idle") => cachedToken = NoToken

\* The step settles a token fetch of requester r.
Settles(r) == fetch[r].st = "req" /\ fetch'[r].st = "none"

\* C14 (as stated): atomic replace of the token cache. A token is stored in
\* cachedToken, or an expiry in tokenExpiry, only by a step that settles a
\* token fetch (steps that clear the cache apart), and a step that stores a
\* new token leaves it paired with its own expiry: the one decoded from it,
\* or, when it cannot be decoded, one hour after the start of its fetch.
C14_AtomicReplace ==
    [][/\ ((cachedToken' # cachedToken /\ cachedToken' # NoToken)
            \/ (tokenExpiry' # tokenExpiry /\ tokenExpiry' # 0))
                => \E r \in Fetchers : Settles(r)
       /\ (cachedToken' # cachedToken /\ cachedToken' # NoToken)
                => \/ tokenExpiry' = cachedToken'.exp
                   \/ \E r \in Fetchers : Settles(r) /\ tokenExpiry' = fetch[r].t0 + HOUR]_vars

\* The outcome of the dispatch of c that the step settles.
Settled(c) == log'[c][Len(log'[c])]

\* The error apiCall() of c rejects with in the step: that of the dispatch,
\* or the original 401 when the dispatch was a resubmission.
Rejected(c) == IF isRetry[c] THEN 401 ELSE Settled(c)

C16_LinearBackoff ==
    [][\A c \in Calls :
        /\ pc'[c] = "sleep" => (attempt'[c] >= 1 /\ delay'[c] = 800 * attempt'[c])
        /\ pc'[c] # "sleep" => delay'[c] = 0
        /\ attempt'[c] # attempt[c] => pc'[c] = "sleep"
        /\ (Entering(c) /\ attempt[c] = 0) => pc[c] # "sleep"]_vars

\* C16 witness: a call sleeps 1600 ms before its second retry attempt.
C16_Witness ==
    \E c \in Calls : pc[c] = "sleep" /\ attempt[c] = 2 /\ delay[c] = 1600

\* C17: an auth retry bypasses the backoff delay. A first 401 puts the
\* request in the wait for the refresh, not in a backoff sleep; the request
\* leaves that wait in the step in which the refresh settles, for the
\* request interceptor (token) and the resubmission, and from the 401 to
\* the resubmission no sleep is awaited and attempt does not change.
C17_AuthRetryBypassesBackoff ==
    [][\A c \in Calls :
        /\ (pc[c] = "inflight" /\ log'[c] # log[c] /\ Settled(c) = 401 /\ ~isRetry[c]) =>
                (pc'[c] = "refreshWait" /\ delay'[c] = 0 /\ attempt'[c] = attempt[c])
        /\ pc[c] = "refreshWait" =>
                /\ pc'[c] \in {"refreshWait", "token", "inflight"}
                /\ delay'[c] = 0
                /\ attempt'[c] = attempt[c]
                /\ pc'[c] # "refreshWait" => (isRefreshingToken /\ ~isRefreshingToken')
        /\ (pc[c] = "token" /\ isRetry[c]) =>
                /\ pc'[c] \in {"token", "inflight"}
                /\ delay'[c] = 0
                /\ attempt'[c] = attempt[c]]_vars

\* C17 witness: the resubmission of a retry attempt is in flight after a
\* 401, the attempt number being the one of the 401.
C17_Witness ==
    \E c \in Calls :
        /\ pc[c] = "inflight"
        /\ isRetry[c]
        /\ log[c] = <<500, 401>>
        /\ attempt[c] = 1
        /\ delay[c] = 0

\* C18: a transport timeout aborts only its own dispatch. The step in which
\* a dispatch of call c times out leaves the refresh guard
\* (isRefreshingToken, tokenRefreshPromise and the pending timer) and
\* everything of the other calls unchanged, c itself going to its next
\* attempt or ending; and when the refresh settles every waiter is resumed.
C18_TimeoutAbortsOnlyItsDispatch ==
    [][/\ \A c \in Calls :
            (pc[c] = "inflight" /\ log'[c] # log[c] /\ Settled(c) = TIMEOUT) =>
                /\ pc'[c] \in {"sleep", "done"}
                /\ isRefreshingToken' = isRefreshingToken
                /\ tokenRefreshPromise' = tokenRefreshPromise
                /\ timers' = timers
                /\ \A w \in Calls \ {c} :
                    /\ pc'[w] = pc[w]
                    /\ log'[w] = log[w]
                    /\ hdr'[w] = hdr[w]
                    /\ attempt'[w] = attempt[w]
                    /\ isRetry'[w] = isRetry[w]
                    /\ intercepted'[w] = intercepted[w]
                    /\ result'[w] = result[w]
       /\ (isRefreshingToken /\ ~isRefreshingToken') =>
            \A w \in Calls : pc[w] = "refreshWait" => pc'[w] \in {"token", "inflight"}]_vars

\* C18 witness: one call has timed out and awaits its backoff sleep, and
\* another call, which waited for the refresh after a 401, has been resumed.
C18_Witness ==
    \E c \in Calls, w \in Calls :
        /\ c # w
        /\ pc[c] = "sleep"
        /\ log[c] = <<TIMEOUT>>
        /\ pc[w] = "inflight"
        /\ isRetry[w]
        /\ log[w] = <<401>>

\* The mount sequence is over: loadData has returned and no effect waits.
Mounted == loadPc = "done" /\ effects = <<>>

\* C20 (as stated): local-storage fallback on load. If the previous session
\* saved tasks under 'codingTasks' and the initial fetchTodos failed or
\* returned no tasks, then after the mount sequence the task list equals
\* the saved tasks, and saved GitHub settings are restored likewise.
C20_LocalStorageFallback ==
    (Mounted /\ saved["codingTasks"] # Null /\ ~UsesApi(apiTasks)) =>
        /\ tasks = Parse(saved["codingTasks"])
        /\ saved["githubSettings"] # Null =>
                githubSettings = Parse(saved["githubSettings"])

\* C22: the first successful dispatch ends the call. A 2xx outcome is the
\* last dispatch of its call; the call has ended with that response, awaits
\* no backoff sleep, and its caller catches no error, whatever attempts
\* failed before.
C22_FirstSuccessEndsCall ==
    \A c \in Calls : \A i \in 1..Len(log[c]) :
        log[c][i] \in 200..299 =>
            /\ i = Len(log[c])
            /\ pc[c] = "done"
            /\ result[c] = log[c][i]
            /\ caught[c] = Undefined
            /\ delay[c] = 0

\* C22 witness: a call has ended with the response of its third attempt
\* after a timeout and a 500.
C22_Witness ==
    \E c \in Calls :
        /\ log[c] = <<TIMEOUT, 500, 200>>
        /\ pc[c] = "done"
        /\ result[c] = 200

\* C23 (as stated): a call makes at most 1 + MAX_RETRIES non-auth attempts
\* plus one auth retry, that is MAX_RETRIES + 2 dispatches, whatever the
\* outcomes are.
C23_DispatchBound ==
    \A c \in Calls : Dispatches(c) <= MAX_RETRIES + 2

\* C24 (as stated): the error that decides on the retry and that the caller
\* gets is the outcome of the last dispatch of the call: a call that has
\* ended reports its last outcome, and a call whose last dispatch returned a
\* 4xx status other than 401 is not retried.
C24_LastOutcomeReported ==
    \A c \in Calls :
        /\ pc[c] = "done" => result[c] = log[c][Len(log[c])]
        /\ pc[c] = "sleep" => log[c][Len(log[c])] \notin ((400..499) \ {401})

\* C26: every request that waits on the refresh promise after a 401 goes
\* on. Whenever isRefreshingToken is true tokenRefreshPromise is not null
\* and isRefreshingToken eventually becomes false again, and no request
\* waits on the promise forever.
C26_RefreshSettles ==
    /\ [](isRefreshingToken => tokenRefreshPromise # "null")
    /\ isRefreshingToken ~> ~isRefreshingToken
    /\ \A c \in Calls : (pc[c] = "refreshWait") ~> (pc[c] # "refreshWait")

\* C26 witness: the refresh has settled and every call, having waited for
\* it after a 401, is resubmitted.
C26_Witness ==
    /\ ~isRefreshingToken
    /\ tokenRefreshPromise = "resolved"
    /\ \A c \in Calls : pc[c] = "inflight" /\ isRetry[c] /\ log[c] = <<401>>

\* C25 (as stated): a token attached to a request was issued to the user
\* who is the current user when it is attached, and the cached token that
\* getAuthToken would return belongs to the current user, under every
\* interleaving of sign-out, sign-in as another user and token fetches
\* still in flight for the previous user.
C25_TokenOfCurrentUser ==
    [][/\ \A c \in Calls :
            (Entering(c) /\ cachedToken' # NoToken) => hdr'[c].user = currentUser'
       /\ (currentUser' # NoUser /\ cachedToken' # NoToken
                /\ tokenExpiry' > now' + TOKEN_REFRESH_THRESHOLD)
            => cachedToken'.user = currentUser']_vars

\* The invocations of callbacks made by the step: the invocations of a
\* session change replace heard, those of the handler's continuation are
\* appended to it.
NewlyHeard ==
    IF heard' = heard THEN <<>>
    ELSE IF Len(heard') > Len(heard) /\ SubSeq(heard', 1, Len(heard)) = heard
    THEN SubSeq(heard', Len(heard) + 1, Len(heard'))
    ELSE heard'

\* Position of callback l in the list the given invoker iterates over.
Position(l, q) == CHOOSE i \in 1..Len(q) : q[i] = l

\* Every handle onAuthStateChange returned for callback l has been called.
Unsubscribed(l) ==
    /\ \E h \in 1..Len(observers) : observers[h].cb = l
    /\ \A h \in 1..Len(observers) : observers[h].cb = l => ~observers[h].active

\* The step ran the notification of the onIdTokenChanged handler.
HandlerNotified ==
    \/ fetch[Handler].st = "req" /\ fetch'[Handler].st = "none"
    \/ logoutPc = "signOut" /\ logoutPc' = "idle"

\* C21 (as stated): on a session change every registered callback is
\* invoked exactly once, the callbacks the handler invokes are invoked in
\* the order of their registration, and a callback whose unsubscribe handle
\* has been called is not invoked any more.
C21_Subscription ==
    [][/\ \A l \in Listeners :
            Cardinality({i \in 1..Len(heard') : heard'[i].who = l}) <= 1
       /\ \A i, j \in 1..Len(NewlyHeard) :
            (i < j /\ NewlyHeard[i].via = "handler" /\ NewlyHeard[j].via = "handler")
                => Position(NewlyHeard[i].who, authStateListeners)
                     < Position(NewlyHeard[j].who, authStateListeners)
       /\ \A i \in 1..Len(NewlyHeard) : ~Unsubscribed(NewlyHeard[i].who)]_vars

\* C30: in the token-change handler the listeners are notified after the
\* cache was assigned (they observe the new cache), every listener of
\* authStateListeners is notified although a listener before it threw, and
\* authStateListeners never holds a callback twice.
C30_ListenerIsolation ==
    [][/\ \A i \in 1..Len(NewlyHeard) :
            NewlyHeard[i].via = "handler" => NewlyHeard[i].cached = cachedToken'
       /\ HandlerNotified =>
            \A l \in Range(authStateListeners) :
                \E i \in 1..Len(NewlyHeard) :
                    NewlyHeard[i].via = "handler" /\ NewlyHeard[i].who = l
       /\ \A i, j \in 1..Len(authStateListeners') :
            authStateListeners'[i] = authStateListeners'[j] => i = j]_vars

\* C30 witness: a callback was registered twice, the handler cached a token
\* and notified a listener that threw and then the listener after it, both
\* with the new token cached.
C30_Witness ==
    /\ \E g, h \in 1..Len(observers) : g # h /\ observers[g].cb = observers[h].cb
    /\ \E i, j \in 1..Len(heard) :
        /\ i < j
        /\ heard[i].via = "handler" /\ heard[i].threw
        /\ heard[j].via = "handler" /\ ~heard[j].threw
        /\ heard[i].cached # NoToken /\ heard[j].cached = cachedToken
        /\ heard[i].user = currentUser /\ currentUser # NoUser

\* C27 (as stated): AuthProvider's currentUser is set only by a
\* verification started after the latest notification without a user (and
\* after the latest reset by logout): a verification of an earlier
\* notification that settles afterwards leaves currentUser null, and
\* ProtectedRoute renders its children only for a verified user.
C27_LatestNotification ==
    /\ authContext.currentUser # NoCtxUser => ~authContext.currentUser.stale
    /\ ProtectedRoute = "children" => authContext.currentUser.firebaseUser # NoUser

\* The ids of the tasks of a list.
Ids(list) == {TaskId(list[i]) : i \in 1..Len(list)}

\* Operation c completes in the step.
Completes(c) == op[c].st = "await" /\ op'[c].st = "applied"

\* The effect of operation o shows in the list: the created task is in it,
\* the deleted one is not, the edited one has the edited content.
Shows(o, list) ==
    IF o.kind = "create" THEN TaskId(o.task) \in Ids(list)
    ELSE IF o.kind = "delete" THEN TaskId(o.task) \notin Ids(list)
    ELSE \A i \in 1..Len(list) :
            TaskId(list[i]) = TaskId(o.task) => (list[i] \div 10) % 2 = 1

\* C28 (as stated): operations that overlap lose no update. An operation
\* that completes applies its change to the list as it is then, not to the
\* list its handler kept before the API call, and the list shows the effect
\* of every completed operation (a created or edited task may have been
\* deleted by a completed delete).
C28_NoLostUpdate ==
    [][\A c \in Calls :
        /\ Completes(c) => tasks' = Applied(op[c], tasks, result[c])
        /\ op'[c].st = "applied" =>
            \/ Shows(op'[c], tasks')
            \/ \E d \in Calls :
                /\ op'[d].st = "applied" /\ op'[d].kind = "delete"
                /\ TaskId(op'[d].task) = TaskId(op'[c].task)]_vars

\* Operation o has something to change in the list its handler kept: an
\* update does when the task edited is in that list with another content.
Changes(o) ==
    o.kind = "update" =>
        /\ TaskId(o.task) \in Ids(o.snapshot)
        /\ o.task \notin Range(o.snapshot)

\* C29: an operation is applied to the list and saved whatever the outcome
\* of its API call is. The step that completes it, after a success or
\* after the failure of the last retry, sets a list that shows its effect
\* and differs from the list the handler kept (when the operation has
\* something to change), and queues the save-tasks effect; once the
\* effects have run localStorage holds the list under 'codingTasks'.
C29_AppliedWhetherOrNot ==
    [][/\ \A c \in Calls :
            Completes(c) =>
                /\ pc[c] = "done"
                /\ Shows(op[c], tasks')
                /\ Changes(op[c]) => tasks' # op[c].snapshot
                /\ effects' = <<"saveTasks">>
       /\ effects' = <<>> => localStorage'["codingTasks"] = Stringify(tasks')]_vars

\* C29 witness: a create whose API call failed on its last retry has been
\* applied and saved.
C29_Witness ==
    \E c \in Calls :
        /\ op[c].st = "applied"
        /\ op[c].kind = "create"
        /\ log[c] = <<500, 500, 500>>
        /\ ~IsSuccess(result[c])
        /\ op[c].task \in Range(tasks)
        /\ effects = <<>>
        /\ localStorage["codingTasks"] = Stringify(tasks)

====
